---- MODULE Spec2Model ----
(***************************************************************************)
(* Model of the LiveInterviewCoach component (ScholarAiFeatures.tsx):      *)
(* connect(), its four transport callbacks, the capture callback and       *)
(* disconnect(), together with the browser and transport environment that  *)
(* drives them.                                                            *)
(*                                                                         *)
(* Every call of connect() creates its own closure: two audio contexts, a  *)
(* microphone stream, a playback cursor and a session promise.  A closure  *)
(* is identified by the number of its connect() call, 1..MaxSessions; the  *)
(* two refs of the component hold such a number, or 0 for null.            *)
(*                                                                         *)
(* Time is counted in output sample periods (1/24000 s): a buffer of n     *)
(* samples has duration n.                                                 *)
(***************************************************************************)
EXTENDS Integers, Sequences, FiniteSets, TLC

\* ---- bounds of the model ----
MaxSessions == 2      \* connect() calls in one behaviour
MaxMsgs == 4          \* server messages delivered in one behaviour
MaxFrames == 2        \* capture callbacks of one closure
MaxTime == 1          \* ticks of the audio clock in one behaviour
MaxSamples == 2       \* samples of a buffer given to createPcmBlob
MaxBytes == 3         \* bytes of a payload given to decodeAudioData

Sessions == 1..MaxSessions

\* byte lengths of the audio payload of a server message: 0 is "no payload",
\* 1 an odd length, 2 the length of a buffer of one sample
AudioLens == {0, 1, 2}

\* ---- the status strings of the component ----
StReady == "Ready to start"
StConnecting == "Connecting..."
StConnected == "Connected! Speak now."
StEnded == "Session ended."
StError == "Connection error."
StFailed == "Failed to access microphone or API."

\* ---- createPcmBlob and decodeAudioData ----

\* A sample is a multiple of 1/Den, written as its numerator: 1.0 is Den.
\* Den is Step * 32768, so that the product of a sample x with 32768 is the
\* fraction x / Step.
Step == 2
Den == Step * 32768

\* samples of an input buffer: the ends and the middle of [-1, 1], the
\* neighbourhood of 0, and values outside the range
InRange == {-Den, 1 - Den, -32768, -3, -1, 0, 1, 2, 32768, Den - 1, Den}
OutOfRange == {Den + 1, Den + 2, 2 * Den, -(Den + 2), -(2 * Den)}
SampleVals == InRange \cup OutOfRange

\* bytes of a payload
ByteVals == {0, 1, 128, 255}

\* the sequences over S of length at most n
RECURSIVE SeqsUpTo(_, _)
SeqsUpTo(S, n) ==
  IF n = 0 THEN {<<>>}
  ELSE LET shorter == SeqsUpTo(S, n - 1)
       IN  shorter \cup {Append(q, x) : q \in {r \in shorter : Len(r) = n - 1},
                                        x \in S}

\* conversion of a number to an element of an Int16Array: the fraction is
\* dropped (towards 0) and the integer taken modulo 2^16 into [-2^15, 2^15)
Truncate(num, den) ==
  IF num >= 0 THEN num \div den ELSE -((-num) \div den)
ToInt16(v) == ((v + 32768) % 65536) - 32768

\* int16[i] = data[i] * 32768
Quantize(x) == ToInt16(Truncate(x, Step))

\* new Uint8Array(int16.buffer): two bytes per sample, low byte first
RECURSIVE BytesOfInt16(_)
BytesOfInt16(q) ==
  IF q = <<>> THEN <<>>
  ELSE LET u == Head(q) % 65536
       IN  <<u % 256, u \div 256>> \o BytesOfInt16(Tail(q))

\* new Int16Array(bytes.buffer), for an even number of bytes
RECURSIVE Int16OfBytes(_)
Int16OfBytes(b) ==
  IF Len(b) < 2 THEN <<>>
  ELSE <<ToInt16(b[1] + 256 * b[2])>> \o Int16OfBytes(SubSeq(b, 3, Len(b)))

\* btoa of the string whose characters have the bytes as their codes: the
\* base64 digits as numbers 0..63, and 64 for the padding "="
Pad == 64
RECURSIVE btoa(_)
btoa(b) ==
  IF Len(b) = 0 THEN <<>>
  ELSE IF Len(b) = 1
    THEN <<b[1] \div 4, (b[1] % 4) * 16, Pad, Pad>>
  ELSE IF Len(b) = 2
    THEN <<b[1] \div 4, (b[1] % 4) * 16 + b[2] \div 16, (b[2] % 16) * 4, Pad>>
  ELSE <<b[1] \div 4, (b[1] % 4) * 16 + b[2] \div 16,
         (b[2] % 16) * 4 + b[3] \div 64, b[3] % 64>>
       \o btoa(SubSeq(b, 4, Len(b)))

\* atob, on the output of btoa: the character codes of the binary string
RECURSIVE atob(_)
atob(t) ==
  IF Len(t) < 4 THEN <<>>
  ELSE LET b1 == t[1] * 4 + t[2] \div 16
           b2 == (t[2] % 16) * 16 + t[3] \div 4
           b3 == (t[3] % 4) * 64 + t[4]
       IN  IF t[3] = Pad THEN <<b1>>
           ELSE IF t[4] = Pad THEN <<b1, b2>>
           ELSE <<b1, b2, b3>> \o atob(SubSeq(t, 5, Len(t)))

PcmMime == "audio/pcm;rate=16000"

\* createPcmBlob(data)
createPcmBlob(data) ==
  LET int16 == [i \in 1..Len(data) |-> Quantize(data[i])]
  IN  [data |-> btoa(BytesOfInt16(int16)), mimeType |-> PcmMime]

\* decodeAudioData(base64, ctx): the samples of the buffer as numerators
\* over 32768, or the RangeError of new Int16Array(bytes.buffer) on a byte
\* length that is not a multiple of 2
decodeAudioData(base64) ==
  LET bytes == atob(base64)
  IN  IF Len(bytes) % 2 = 1
      THEN [threw |-> TRUE, channelData |-> <<>>]
      ELSE [threw |-> FALSE, channelData |-> Int16OfBytes(bytes)]

\* the inputs of a call of the two functions on their own: a buffer of
\* samples to encode (and decode again), or a payload to decode
CodecIdle ==
  [stage |-> "idle", src |-> "none", samples |-> <<>>, payload |-> <<>>,
   blob |-> [data |-> <<>>, mimeType |-> ""],
   result |-> [threw |-> FALSE, channelData |-> <<>>]]
CodecInputs ==
  {[CodecIdle EXCEPT !.stage = "input", !.src = "samples", !.samples = x] :
     x \in SeqsUpTo(SampleVals, MaxSamples)}
  \cup
  {[CodecIdle EXCEPT !.stage = "encoded", !.src = "payload", !.payload = b,
                     !.blob = [data |-> btoa(b), mimeType |-> ""]] :
     b \in SeqsUpTo(ByteVals, MaxBytes)}

VARIABLES
  isOpen,           \* useState: the modal is shown
  isActive,         \* useState
  status,           \* useState
  audioContextRef,  \* useRef: closure whose output context it holds, 0 = null
  streamRef,        \* useRef: closure whose stream it holds, 0 = null
  pc,               \* position of each connect() call
  inputCtx,         \* state of each closure's inputAudioContext
  outputCtx,        \* state of each closure's outputAudioContext
  stream,           \* state of each closure's microphone stream
  transport,        \* state of each closure's connection, as the SDK sees it
  promise,          \* state of each closure's sessionPromise
  opened,           \* onopen of the closure has run
  capture,          \* scriptProcessor.onaudioprocess installed and wired
  nextStartTime,    \* the closure variable nextStartTime
  currentTime,      \* outputAudioContext.currentTime
  timeline,         \* per closure: source.start() calls and cursor resets
  handlers,         \* per closure: onmessage calls suspended at their await
  captured,         \* per closure: number of capture callbacks run
  queued,           \* per closure: frames waiting on sessionPromise.then
  sent,             \* per closure: frames given to sendRealtimeInput
  stopped,          \* per closure: its connection when disconnect() last ran
  nMsgs,            \* messages delivered so far
  nChunks,          \* per closure: messages with an audio payload delivered
  clock,            \* ticks so far
  codec             \* a call of createPcmBlob / decodeAudioData on its own

vars == <<isOpen, isActive, status, audioContextRef, streamRef, pc, inputCtx,
          outputCtx, stream, transport, promise, opened, capture,
          nextStartTime, currentTime, timeline, handlers, captured, queued,
          sent, stopped, nMsgs, nChunks, clock, codec>>

uiVars == <<isOpen, isActive, status>>
refVars == <<audioContextRef, streamRef>>
deviceVars == <<inputCtx, outputCtx, stream>>
netVars == <<transport, promise, opened>>
playVars == <<nextStartTime, timeline, handlers, nMsgs, nChunks>>
capVars == <<capture, captured, queued, sent>>
componentVars == <<uiVars, refVars, pc, deviceVars, netVars, playVars, capVars,
                   currentTime, stopped, clock>>

Max(a, b) == IF a >= b THEN a ELSE b

\* the component after its first render, before any event
InitComponent ==
  /\ isOpen = FALSE
  /\ isActive = FALSE
  /\ status = StReady
  /\ audioContextRef = 0
  /\ streamRef = 0
  /\ pc = [i \in Sessions |-> "idle"]
  /\ inputCtx = [i \in Sessions |-> "none"]
  /\ outputCtx = [i \in Sessions |-> "none"]
  /\ stream = [i \in Sessions |-> "none"]
  /\ transport = [i \in Sessions |-> "none"]
  /\ promise = [i \in Sessions |-> "none"]
  /\ opened = [i \in Sessions |-> FALSE]
  /\ capture = [i \in Sessions |-> FALSE]
  /\ nextStartTime = [i \in Sessions |-> 0]
  /\ currentTime = [i \in Sessions |-> 0]
  /\ timeline = [i \in Sessions |-> <<>>]
  /\ handlers = [i \in Sessions |-> <<>>]
  /\ captured = [i \in Sessions |-> 0]
  /\ queued = [i \in Sessions |-> <<>>]
  /\ sent = [i \in Sessions |-> <<>>]
  /\ stopped = [i \in Sessions |-> "never"]
  /\ nMsgs = 0
  /\ nChunks = [i \in Sessions |-> 0]
  /\ clock = 0

Init == InitComponent /\ codec = CodecIdle

\* the two functions called on their own, on each of the inputs
InitCodec == InitComponent /\ codec \in CodecInputs

\* ---- the modal ----

\* onClick of the "Interview Coach" card
OpenModal ==
  /\ ~isOpen
  /\ isOpen' = TRUE
  /\ UNCHANGED <<isActive, status, refVars, pc, deviceVars, netVars,
                 playVars, capVars, currentTime, stopped, clock, codec>>

\* ---- connect() ----

\* connect() up to its first await: the call is the next unused closure.
\* The Start button is rendered only while the modal is open and isActive
\* is false.
ConnectStart(i) ==
  /\ isOpen /\ ~isActive
  /\ pc[i] = "idle"
  /\ \A j \in Sessions : j < i => pc[j] # "idle"
  /\ status' = StConnecting
  /\ inputCtx' = [inputCtx EXCEPT ![i] = "running"]
  /\ outputCtx' = [outputCtx EXCEPT ![i] = "running"]
  /\ audioContextRef' = i
  /\ pc' = [pc EXCEPT ![i] = "awaitMic"]
  /\ UNCHANGED <<isOpen, isActive, streamRef, stream, netVars, playVars,
                 capVars, currentTime, stopped, clock, codec>>

\* MicGranted with the capture callback installed next to the connect call
\* instead of inside onopen
MicGrantedStartsCapture(i) ==
  /\ pc[i] = "awaitMic"
  /\ stream' = [stream EXCEPT ![i] = "live"]
  /\ streamRef' = i
  /\ nextStartTime' = [nextStartTime EXCEPT ![i] = 0]
  /\ promise' = [promise EXCEPT ![i] = "pending"]
  /\ transport' = [transport EXCEPT ![i] = "connecting"]
  /\ pc' = [pc EXCEPT ![i] = "done"]
  /\ capture' = [capture EXCEPT ![i] = TRUE]
  /\ UNCHANGED <<uiVars, audioContextRef, inputCtx, outputCtx, opened,
                 timeline, handlers, nMsgs, nChunks, captured, queued,
                 sent, currentTime, stopped, clock, codec>>

\* MicGranted with the cursor of the call before it taken over, as if
\* nextStartTime were one variable of the component
MicGrantedKeepsCursor(i) ==
  /\ pc[i] = "awaitMic"
  /\ stream' = [stream EXCEPT ![i] = "live"]
  /\ streamRef' = i
  /\ nextStartTime' = [nextStartTime EXCEPT ![i] =
                          IF i > 1 THEN nextStartTime[i - 1] ELSE 0]
  /\ promise' = [promise EXCEPT ![i] = "pending"]
  /\ transport' = [transport EXCEPT ![i] = "connecting"]
  /\ pc' = [pc EXCEPT ![i] = "done"]
  /\ UNCHANGED <<uiVars, audioContextRef, inputCtx, outputCtx, opened,
                 timeline, handlers, nMsgs, nChunks, capVars, currentTime,
                 stopped, clock, codec>>

\* getUserMedia resolves: the rest of the try block, which ends with the
\* (unawaited) call of liveClient.connect
MicGranted(i) ==
  /\ pc[i] = "awaitMic"
  /\ stream' = [stream EXCEPT ![i] = "live"]
  /\ streamRef' = i
  /\ nextStartTime' = [nextStartTime EXCEPT ![i] = 0]
  /\ promise' = [promise EXCEPT ![i] = "pending"]
  /\ transport' = [transport EXCEPT ![i] = "connecting"]
  /\ pc' = [pc EXCEPT ![i] = "done"]
  /\ UNCHANGED <<uiVars, audioContextRef, inputCtx, outputCtx, opened,
                 timeline, handlers, nMsgs, nChunks, capVars, currentTime,
                 stopped,
                 clock, codec>>

\* MicDenied with the rejection swallowed, so that the try block goes on to
\* call liveClient.connect without a stream
MicDeniedFallsThrough(i) ==
  /\ pc[i] = "awaitMic"
  /\ status' = StFailed
  /\ promise' = [promise EXCEPT ![i] = "pending"]
  /\ transport' = [transport EXCEPT ![i] = "connecting"]
  /\ pc' = [pc EXCEPT ![i] = "denied"]
  /\ UNCHANGED <<isOpen, isActive, refVars, deviceVars, opened, playVars,
                 capVars, currentTime, stopped, clock, codec>>

\* getUserMedia rejects: the catch block
MicDenied(i) ==
  /\ pc[i] = "awaitMic"
  /\ status' = StFailed
  /\ pc' = [pc EXCEPT ![i] = "denied"]
  /\ UNCHANGED <<isOpen, isActive, refVars, deviceVars, netVars, playVars,
                 capVars, currentTime, stopped, clock, codec>>

\* ---- the callbacks given to liveClient.connect ----

onopen(i) ==
  /\ transport[i] = "connecting"
  /\ transport' = [transport EXCEPT ![i] = "open"]
  /\ opened' = [opened EXCEPT ![i] = TRUE]
  /\ status' = StConnected
  /\ isActive' = TRUE
  /\ capture' = [capture EXCEPT ![i] = TRUE]
  /\ UNCHANGED <<isOpen, refVars, pc, deviceVars, promise, playVars,
                 captured, queued, sent, currentTime, stopped, clock, codec>>

\* onclose with the connection requested again by the engine
oncloseReconnects(i) ==
  /\ transport[i] \in {"connecting", "open", "failed"}
  /\ transport' = [transport EXCEPT ![i] = "connecting"]
  /\ status' = StEnded
  /\ isActive' = FALSE
  /\ UNCHANGED <<isOpen, refVars, pc, deviceVars, promise, opened, playVars,
                 capVars, currentTime, stopped, clock, codec>>

onclose(i) ==
  /\ transport[i] \in {"connecting", "open", "failed"}
  /\ transport' = [transport EXCEPT ![i] = "closed"]
  /\ status' = StEnded
  /\ isActive' = FALSE
  /\ UNCHANGED <<isOpen, refVars, pc, deviceVars, promise, opened, playVars,
                 capVars, currentTime, stopped, clock, codec>>

onerror(i) ==
  /\ transport[i] \in {"connecting", "open"}
  /\ transport' = [transport EXCEPT ![i] = "failed"]
  /\ status' = StError
  /\ isActive' = FALSE
  /\ UNCHANGED <<isOpen, refVars, pc, deviceVars, promise, opened, playVars,
                 capVars, currentTime, stopped, clock, codec>>

\* ---- disconnect() ----

disconnect ==
  /\ stream' = IF streamRef # 0
               THEN [stream EXCEPT ![streamRef] = "ended"]
               ELSE stream
  /\ outputCtx' = IF audioContextRef # 0 /\ outputCtx[audioContextRef] # "closed"
                  THEN [outputCtx EXCEPT ![audioContextRef] = "closed"]
                  ELSE outputCtx
  /\ isActive' = FALSE
  /\ status' = StReady
  /\ stopped' = [i \in Sessions |->
                   IF pc[i] = "idle" THEN "never" ELSE transport[i]]
  /\ UNCHANGED <<refVars, pc, inputCtx, netVars, playVars, capVars,
                 currentTime, clock, codec>>

\* onClick of the "End Session" button, rendered while isActive
EndSession ==
  /\ isOpen /\ isActive
  /\ disconnect
  /\ UNCHANGED isOpen

\* onClick of the X button of the modal
CloseModal ==
  /\ isOpen
  /\ disconnect
  /\ isOpen' = FALSE

\* ---- the session promise ----

\* PromiseResolve with the then-callbacks run in the reverse of the order in
\* which they were registered
PromiseResolveLastFirst(i) ==
  /\ promise[i] = "pending"
  /\ opened[i]
  /\ promise' = [promise EXCEPT ![i] = "resolved"]
  /\ sent' = [sent EXCEPT ![i] =
                sent[i] \o [k \in 1..Len(queued[i]) |->
                              queued[i][Len(queued[i]) + 1 - k]]]
  /\ queued' = [queued EXCEPT ![i] = <<>>]
  /\ UNCHANGED <<uiVars, refVars, pc, deviceVars, transport, opened,
                 playVars, capture, captured, currentTime, stopped, clock,
                 codec>>

\* liveClient.connect() fulfils its promise once the connection is open; the
\* then-callbacks registered by the capture callback run in order
PromiseResolve(i) ==
  /\ promise[i] = "pending"
  /\ opened[i]
  /\ promise' = [promise EXCEPT ![i] = "resolved"]
  /\ sent' = [sent EXCEPT ![i] = sent[i] \o queued[i]]
  /\ queued' = [queued EXCEPT ![i] = <<>>]
  /\ UNCHANGED <<uiVars, refVars, pc, deviceVars, transport, opened,
                 playVars, capture, captured, currentTime, stopped, clock,
                 codec>>

\* liveClient.connect() rejects its promise (ConnectionError).  The promise
\* is not awaited and has no rejection handler: no code of the component runs.
PromiseReject(i) ==
  /\ promise[i] = "pending"
  /\ transport[i] = "connecting"
  /\ promise' = [promise EXCEPT ![i] = "rejected"]
  /\ transport' = [transport EXCEPT ![i] = "closed"]
  /\ UNCHANGED <<uiVars, refVars, pc, deviceVars, opened, playVars, capVars,
                 currentTime, stopped, clock, codec>>

\* ---- playback: onmessage ----

Messages == [audio : AudioLens, interrupted : BOOLEAN]

\* the messages that are one event each: an audio chunk of one sample, or an
\* Interrupted event
PlainMessages ==
  {m \in Messages : (m.audio = 2 /\ ~m.interrupted)
                       \/ (m.audio = 0 /\ m.interrupted)}

\* timeline entries.  Of the source.start() call of a chunk: its start
\* time, the duration of its buffer, the clock at the call, the number n of
\* the chunk among the chunks of its connection, and how many handlers were
\* suspended when the chunk arrived.  Of a cursor reset: the clock, and the
\* number of chunks that had arrived by then.
Frame(s, d, t, n, p) ==
  [kind |-> "frame", start |-> s, dur |-> d, at |-> t, n |-> n, pend |-> p]
Reset(t, n) ==
  [kind |-> "reset", start |-> 0, dur |-> 0, at |-> t, n |-> n, pend |-> 0]

\* decodeAudioData: new Int16Array(bytes.buffer) throws a RangeError when the
\* payload has an odd number of bytes
DecodeThrows(n) == n % 2 = 1

\* decodeAudioData: the number of samples of the buffer made from a payload
\* of n bytes (n even), which is also its duration in sample periods
BufferLength(n) == n \div 2

\* if (msg.serverContent?.interrupted) nextStartTime = 0
Interrupt(i, m, nst, tl, n) ==
  IF m.interrupted
  THEN /\ nextStartTime' = [nextStartTime EXCEPT ![i] = 0]
       /\ timeline' = [timeline EXCEPT ![i] =
                         Append(tl, Reset(currentTime[i], n))]
  ELSE /\ nextStartTime' = [nextStartTime EXCEPT ![i] = nst]
       /\ timeline' = [timeline EXCEPT ![i] = tl]

\* onmessage up to its await (a message with a payload), or the whole of it
\* (a message without)
onmessage(i, m) ==
  /\ transport[i] = "open"
  /\ nMsgs < MaxMsgs
  /\ nMsgs' = nMsgs + 1
  /\ IF m.audio # 0
     THEN /\ nextStartTime' = [nextStartTime EXCEPT ![i] =
                                 Max(nextStartTime[i], currentTime[i])]
          /\ nChunks' = [nChunks EXCEPT ![i] = nChunks[i] + 1]
          /\ handlers' = [handlers EXCEPT ![i] =
                            Append(handlers[i],
                                   [msg |-> m, n |-> nChunks[i] + 1,
                                    pend |-> Len(handlers[i])])]
          /\ UNCHANGED timeline
     ELSE /\ Interrupt(i, m, nextStartTime[i], timeline[i], nChunks[i])
          /\ UNCHANGED <<handlers, nChunks>>
  /\ UNCHANGED <<uiVars, refVars, pc, deviceVars, netVars, capVars,
                 currentTime, stopped, clock, codec>>

\* onmessageResume with the source started at the clock instead of at the
\* cursor: source.start(currentTime); nextStartTime = currentTime + duration
onmessageResumeAtNow(i) ==
  /\ handlers[i] # <<>>
  /\ LET h == Head(handlers[i])
         m == h.msg
         d == BufferLength(m.audio)
     IN  IF DecodeThrows(m.audio)
         THEN UNCHANGED <<nextStartTime, timeline>>
         ELSE Interrupt(i, m, currentTime[i] + d,
                        Append(timeline[i],
                               Frame(currentTime[i], d, currentTime[i],
                                     h.n, h.pend)),
                        h.n)
  /\ handlers' = [handlers EXCEPT ![i] = Tail(handlers[i])]
  /\ UNCHANGED <<uiVars, refVars, pc, deviceVars, netVars, capVars,
                 currentTime, stopped, nMsgs, nChunks, clock, codec>>

\* onmessageResume with the handlers resumed in the reverse of the order in
\* which they were suspended
onmessageResumeLast(i) ==
  /\ handlers[i] # <<>>
  /\ LET h == handlers[i][Len(handlers[i])]
         m == h.msg
         d == BufferLength(m.audio)
     IN  IF DecodeThrows(m.audio)
         THEN UNCHANGED <<nextStartTime, timeline>>
         ELSE Interrupt(i, m, nextStartTime[i] + d,
                        Append(timeline[i],
                               Frame(nextStartTime[i], d, currentTime[i],
                                     h.n, h.pend)),
                        h.n)
  /\ handlers' = [handlers EXCEPT ![i] =
                    SubSeq(handlers[i], 1, Len(handlers[i]) - 1)]
  /\ UNCHANGED <<uiVars, refVars, pc, deviceVars, netVars, capVars,
                 currentTime, stopped, nMsgs, nChunks, clock, codec>>

\* onmessage from its await to its end; when the decoding threw, the await
\* throws and the handler ends there.  The awaited promises are settled when
\* they are awaited, so the handlers resume in the order they were suspended.
onmessageResume(i) ==
  /\ handlers[i] # <<>>
  /\ LET h == Head(handlers[i])
         m == h.msg
         d == BufferLength(m.audio)
     IN  IF DecodeThrows(m.audio)
         THEN UNCHANGED <<nextStartTime, timeline>>
         ELSE Interrupt(i, m, nextStartTime[i] + d,
                        Append(timeline[i],
                               Frame(nextStartTime[i], d, currentTime[i],
                                     h.n, h.pend)),
                        h.n)
  /\ handlers' = [handlers EXCEPT ![i] = Tail(handlers[i])]
  /\ UNCHANGED <<uiVars, refVars, pc, deviceVars, netVars, capVars,
                 currentTime, stopped, nMsgs, nChunks, clock, codec>>

\* ---- the two functions on their own ----

\* a call createPcmBlob(samples)
Encode ==
  /\ codec.stage = "input"
  /\ codec' = [codec EXCEPT !.stage = "encoded",
                            !.blob = createPcmBlob(codec.samples)]
  /\ UNCHANGED componentVars

\* a call decodeAudioData(blob.data, ctx), on the output of createPcmBlob or
\* on a payload
Decode ==
  /\ codec.stage = "encoded"
  /\ codec' = [codec EXCEPT !.stage = "decoded",
                            !.result = decodeAudioData(codec.blob.data)]
  /\ UNCHANGED componentVars

\* ---- capture: scriptProcessor.onaudioprocess ----

\* createPcmBlob(inputData) of the k-th frame of a closure: the frame stands
\* for its samples; deferred tells whether the then-callback that sends the
\* chunk was registered on a pending promise
PcmBlobOf(k, deferred) ==
  [frame |-> k, mimeType |-> createPcmBlob(<<>>).mimeType,
   deferred |-> deferred]

\* onaudioprocess with the playback cursor moved on by the capture callback
onaudioprocessMovesCursor(i) ==
  /\ capture[i] /\ inputCtx[i] = "running"
  /\ captured[i] < MaxFrames
  /\ captured' = [captured EXCEPT ![i] = captured[i] + 1]
  /\ nextStartTime' = [nextStartTime EXCEPT ![i] = nextStartTime[i] + 1]
  /\ LET pcmBlob == PcmBlobOf(captured[i] + 1, promise[i] = "pending")
     IN  CASE promise[i] = "resolved" ->
                 /\ sent' = [sent EXCEPT ![i] = Append(sent[i], pcmBlob)]
                 /\ UNCHANGED queued
            [] promise[i] = "pending" ->
                 /\ queued' = [queued EXCEPT ![i] = Append(queued[i], pcmBlob)]
                 /\ UNCHANGED sent
            [] OTHER -> UNCHANGED <<queued, sent>>
  /\ UNCHANGED <<uiVars, refVars, pc, deviceVars, netVars, timeline, handlers,
                 nMsgs, nChunks, capture, currentTime, stopped, clock, codec>>

\* The script processor is never disconnected and the input context is never
\* closed, so the callback runs for as long as it is installed.
\* On a fulfilled promise the then-callback runs before the next capture
\* callback; on a pending one it waits; on a rejected one it never runs.
onaudioprocess(i) ==
  /\ capture[i] /\ inputCtx[i] = "running"
  /\ captured[i] < MaxFrames
  /\ captured' = [captured EXCEPT ![i] = captured[i] + 1]
  /\ LET pcmBlob == PcmBlobOf(captured[i] + 1, promise[i] = "pending")
     IN  CASE promise[i] = "resolved" ->
                 /\ sent' = [sent EXCEPT ![i] = Append(sent[i], pcmBlob)]
                 /\ UNCHANGED queued
            [] promise[i] = "pending" ->
                 /\ queued' = [queued EXCEPT ![i] = Append(queued[i], pcmBlob)]
                 /\ UNCHANGED sent
            [] OTHER -> UNCHANGED <<queued, sent>>
  /\ UNCHANGED <<uiVars, refVars, pc, deviceVars, netVars, playVars, capture,
                 currentTime, stopped, clock, codec>>

\* ---- the audio clock ----

\* currentTime of every running output context advances by one sample period
Tick ==
  /\ clock < MaxTime
  /\ \E i \in Sessions : outputCtx[i] = "running"
  /\ clock' = clock + 1
  /\ currentTime' = [i \in Sessions |->
                       IF outputCtx[i] = "running" THEN currentTime[i] + 1
                       ELSE currentTime[i]]
  /\ UNCHANGED <<uiVars, refVars, pc, deviceVars, netVars, playVars, capVars,
                 stopped, codec>>

\* ---- specifications ----

\* The session life cycle: every connect() call with its devices, its
\* connection and its callbacks, under every order of the buttons, the
\* microphone prompt and the transport.  No capture callback fires, no
\* server message is delivered and the audio clock stands still.
Next ==
  \/ OpenModal
  \/ EndSession
  \/ CloseModal
  \/ \E i \in Sessions : ConnectStart(i)
  \/ \E i \in Sessions : MicGranted(i)
  \/ \E i \in Sessions : MicDenied(i)
  \/ \E i \in Sessions : onopen(i)
  \/ \E i \in Sessions : onclose(i)
  \/ \E i \in Sessions : onerror(i)
  \/ \E i \in Sessions : PromiseReject(i)

Spec == Init /\ [][Next]_vars

\* Capture: the first connect() call alone, with its session promise and
\* its capture callback.
NextCapture ==
  \/ OpenModal
  \/ EndSession
  \/ CloseModal
  \/ ConnectStart(1)
  \/ MicGranted(1)
  \/ MicDenied(1)
  \/ onopen(1)
  \/ onclose(1)
  \/ onerror(1)
  \/ PromiseResolve(1)
  \/ PromiseReject(1)
  \/ onaudioprocess(1)

SpecCapture == Init /\ [][NextCapture]_vars

\* Playback: the first connect() call alone, from its start to the opening
\* of its connection, with the server messages and the audio clock.
\* disconnect() and the other callbacks touch neither the cursor nor the
\* sources nor the message handlers; they are left to Spec.
NextPlayback ==
  \/ OpenModal
  \/ Tick
  \/ ConnectStart(1)
  \/ MicGranted(1)
  \/ onopen(1)
  \/ \E m \in Messages : onmessage(1, m)
  \/ onmessageResume(1)

SpecPlayback == Init /\ [][NextPlayback]_vars

\* The two functions alone, on each input of CodecInputs.
NextCodec ==
  \/ Encode
  \/ Decode

SpecCodec == InitCodec /\ [][NextCodec]_vars

\* The first connect() call alone and the passing of time.  The clock of a
\* running audio context advances on its own; nothing else is assumed to
\* happen.
NextLive ==
  \/ OpenModal
  \/ EndSession
  \/ CloseModal
  \/ Tick
  \/ ConnectStart(1)
  \/ MicGranted(1)
  \/ MicDenied(1)
  \/ onopen(1)
  \/ onclose(1)
  \/ onerror(1)
  \/ PromiseResolve(1)
  \/ PromiseReject(1)

SpecLive == Init /\ [][NextLive]_vars /\ WF_vars(Tick)

\* Both directions: the first connect() call alone with its capture
\* callback, the stop buttons and server messages of one event each, at a
\* standing clock.
NextDuplex ==
  \/ OpenModal
  \/ EndSession
  \/ CloseModal
  \/ ConnectStart(1)
  \/ MicGranted(1)
  \/ onopen(1)
  \/ PromiseResolve(1)
  \/ onaudioprocess(1)
  \/ \E m \in PlainMessages : onmessage(1, m)
  \/ onmessageResume(1)

SpecDuplex == Init /\ [][NextDuplex]_vars

\* Two sessions: the first two connect() calls, each with its own output
\* context and its own server messages (of one event each), and End Session
\* between them, at a standing clock.
NextHandover ==
  \/ OpenModal
  \/ EndSession
  \/ \E i \in {1, 2} : ConnectStart(i)
  \/ \E i \in {1, 2} : MicGranted(i)
  \/ \E i \in {1, 2} : onopen(i)
  \/ \E i \in {1, 2} : \E m \in PlainMessages : onmessage(i, m)
  \/ \E i \in {1, 2} : onmessageResume(i)

SpecHandover == Init /\ [][NextHandover]_vars

\* ---- properties ----

\* closure i has an Active session: its connection is open and the component
\* shows it as connected
Active(i) == transport[i] = "open" /\ isActive /\ status = StConnected

\* a step that runs disconnect()
DisconnectStep == EndSession \/ CloseModal

\* C1: when a session is Active and the transport delivers an Error event,
\* the state becomes Failed with the reason and the microphone and the output
\* device of the session are released.
C1_ErrorTearsDown ==
  [][\A i \in Sessions :
       (Active(i) /\ onerror(i)) =>
         /\ status' = StError /\ ~isActive'
         /\ stream'[i] = "ended"
         /\ outputCtx'[i] = "closed"]_vars

\* C2: when a session is Active and the transport delivers a Closed event,
\* the session moves to Ended and teardown runs: the microphone is released,
\* capture is stopped and the output device is released.
C2_CloseTearsDown ==
  [][\A i \in Sessions :
       (Active(i) /\ onclose(i)) =>
         /\ status' = StEnded /\ ~isActive'
         /\ stream'[i] = "ended"
         /\ ~capture'[i]
         /\ outputCtx'[i] = "closed"]_vars

\* C3: in no reachable state is the microphone of a failed connection attempt
\* (the connect promise rejected) open while no session is connecting or
\* active.
C3_FailedConnectReleasesMic ==
  \A i \in Sessions :
    (/\ promise[i] = "rejected"
     /\ \A j \in Sessions : transport[j] \notin {"connecting", "open"})
    => stream[i] # "live"

\* C4: when microphone acquisition is refused, the status becomes the
\* failure status and liveClient.connect is never invoked for that attempt:
\* the closure of a refused attempt has no promise and no connection.
C4_DeniedNeverConnects ==
  [][\A i \in Sessions :
       pc'[i] = "denied" =>
         /\ promise'[i] = "none"
         /\ transport'[i] = "none"
         /\ pc[i] = "awaitMic" => (status' = StFailed /\ isActive' = isActive)]_vars

\* C4 witness: an attempt was refused and the failure status is shown
C4_Witness ==
  \E i \in Sessions : pc[i] = "denied" /\ status = StFailed /\ stream[i] = "none"

\* C5: once disconnect() has run on an Active session, its capture callback
\* hands no further frame to the transport and its microphone is released.
C5_StopSilencesCapture ==
  [][\A i \in Sessions :
       stopped[i] = "open" =>
         /\ sent'[i] = sent[i]
         /\ stream'[i] # "live"]_vars

\* C6: after disconnect() has run while the connection attempt of a session
\* was outstanding, that session never becomes Active and never starts
\* capture, even if the Opened event arrives later.
C6_StopCancelsConnect ==
  [][\A i \in Sessions :
       stopped[i] = "connecting" =>
         /\ ~capture'[i]
         /\ ~(onopen(i) /\ isActive')]_vars

\* C7: after disconnect(), also when it runs twice in a row or while Idle, no
\* device handle (microphone stream, input context, output context) is open.
C7_StopLeavesNoHandle ==
  [][DisconnectStep =>
       \A i \in Sessions :
         /\ stream'[i] # "live"
         /\ inputCtx'[i] # "running"
         /\ outputCtx'[i] # "running"]_vars

\* C8: capture never starts before the Opened event: whenever the capture
\* callback of a session is installed, or one of its frames was captured or
\* handed to the transport, onopen of that session has run.
C8_CaptureAfterOpened ==
  \A i \in Sessions :
    (capture[i] \/ captured[i] > 0 \/ queued[i] # <<>> \/ sent[i] # <<>>)
    => opened[i]

\* C8 witness: a session was opened, captures, and has sent a frame
C8_Witness ==
  \E i \in Sessions : opened[i] /\ capture[i] /\ sent[i] # <<>>

\* C9: while a session is Active, no start() replaces the microphone or the
\* output device the component holds: the two refs are the same before and
\* after every step taken while isActive.
C9_ActiveKeepsOwnership ==
  [][isActive =>
       /\ streamRef' = streamRef
       /\ audioContextRef' = audioContextRef]_vars

\* number of cursor resets recorded in a timeline
RECURSIVE Resets(_)
Resets(tl) ==
  IF tl = <<>> THEN 0
  ELSE (IF Head(tl).kind = "reset" THEN 1 ELSE 0) + Resets(Tail(tl))

\* two frames scheduled one after the other with no reset between them do
\* not overlap
NoOverlap(tl) ==
  \A k \in 1..(Len(tl) - 1) :
    (tl[k].kind = "frame" /\ tl[k + 1].kind = "frame")
    => tl[k + 1].start >= tl[k].start + tl[k].dur

\* C10: as long as no Interrupted is handled, nextStartTime never decreases,
\* and every frame is scheduled to start at or after the scheduled end of the
\* frame scheduled before it.
C10_MonotonicCursor ==
  [][\A i \in Sessions :
       /\ Resets(timeline'[i]) = Resets(timeline[i])
            => nextStartTime'[i] >= nextStartTime[i]
       /\ NoOverlap(timeline'[i])]_vars

\* C10 witness: two frames were scheduled back to back with no reset between
\* them, the second one behind a backlog (later than the clock)
C10_Witness ==
  \E k \in 1..(Len(timeline[1]) - 1) :
    /\ timeline[1][k].kind = "frame" /\ timeline[1][k + 1].kind = "frame"
    /\ timeline[1][k + 1].start > timeline[1][k + 1].at
    /\ timeline[1][k + 1].start = timeline[1][k].start + timeline[1][k].dur

\* the instant on the output clock at which the source of a frame stops
\* sounding: a source started with a time in the past starts at once
FrameEnd(f) == Max(f.start, f.at) + f.dur

\* C11: once an Interrupted event has been handled, no frame scheduled before
\* it is still playing or pending: every source started before the event has
\* finished or has been stopped by the time the event is handled.
C11_InterruptStopsSources ==
  \A i \in Sessions :
    \A k \in 1..Len(timeline[i]) :
      timeline[i][k].kind = "reset" =>
        \A j \in 1..(k - 1) :
          timeline[i][j].kind = "frame" =>
            FrameEnd(timeline[i][j]) <= timeline[i][k].at

\* C12: when an Interrupted event is handled while a frame scheduled before
\* it still has its end in the future, the chunk that arrives next after the
\* event is scheduled to start at the clock's current time, not later.
C12_NextChunkAtNow ==
  \A i \in Sessions :
    \A j, k \in 1..Len(timeline[i]) :
      ( /\ timeline[i][j].kind = "reset"
        /\ \E b \in 1..(j - 1) :
             /\ timeline[i][b].kind = "frame"
             /\ FrameEnd(timeline[i][b]) > timeline[i][j].at
        /\ timeline[i][k].kind = "frame"
        /\ timeline[i][k].n = timeline[i][j].n + 1 )
      => timeline[i][k].start <= timeline[i][k].at

\* C13: of two chunks that arrive one after the other, the first is scheduled
\* first, and when no Interrupted event is handled between their scheduling,
\* the second starts no earlier than the first one ends.
C13_SequentialChunks ==
  \A i \in Sessions :
    \A j, k \in 1..Len(timeline[i]) :
      ( /\ timeline[i][j].kind = "frame"
        /\ timeline[i][k].kind = "frame"
        /\ timeline[i][k].n = timeline[i][j].n + 1 )
      => /\ j < k
         /\ (\A r \in (j + 1)..(k - 1) : timeline[i][r].kind # "reset")
              => timeline[i][k].start
                   >= timeline[i][j].start + timeline[i][j].dur

\* C13 witness: chunk b arrived while the handler of chunk a was suspended at
\* its await, and both were scheduled, b at the end of a
C13_Witness ==
  \E j, k \in 1..Len(timeline[1]) :
    /\ timeline[1][j].kind = "frame" /\ timeline[1][k].kind = "frame"
    /\ timeline[1][k].n = timeline[1][j].n + 1
    /\ timeline[1][k].pend >= 1
    /\ timeline[1][j].dur > 0
    /\ timeline[1][k].start = timeline[1][j].start + timeline[1][j].dur

Abs(x) == IF x >= 0 THEN x ELSE -x

\* C14: decode(encode(x)) of a sequence x of samples in [-1, 1] has the
\* length of x, and each of its samples is within 1/32768 of the original,
\* the samples 1.0 and -1.0 included.
C14_RoundTrip ==
  ( /\ codec.stage = "decoded" /\ codec.src = "samples"
    /\ \A i \in 1..Len(codec.samples) : codec.samples[i] \in -Den..Den )
  => /\ ~codec.result.threw
     /\ Len(codec.result.channelData) = Len(codec.samples)
     /\ \A i \in 1..Len(codec.samples) :
          \* |out / 32768 - x / Den| <= 1 / 32768
          Abs(codec.result.channelData[i] * Step - codec.samples[i]) <= Step

\* C15: encode clamps: a sample whose scaled value is above 32767 is encoded
\* as 32767 and one whose scaled value is below -32768 as -32768.
C15_EncodeClamps ==
  (codec.stage = "encoded" /\ codec.src = "samples")
  => LET int16 == Int16OfBytes(atob(codec.blob.data))
     IN  /\ Len(int16) = Len(codec.samples)
         /\ \A i \in 1..Len(codec.samples) :
              /\ codec.samples[i] > 32767 * Step => int16[i] = 32767
              /\ codec.samples[i] < -32768 * Step => int16[i] = -32768

\* C16: decode does not fail on a payload of an odd number n of bytes; it
\* returns n \div 2 samples for a payload of n bytes.
C16_DecodeOddLength ==
  (codec.stage = "decoded" /\ codec.src = "payload")
  => /\ ~codec.result.threw
     /\ Len(codec.result.channelData) = Len(codec.payload) \div 2

\* C17: a session does not stay in Connecting for ever: when the connection
\* has been requested and the transport delivers no event, the session
\* eventually leaves Connecting (by a timeout).
C17_ConnectTimeout ==
  (status = StConnecting /\ transport[1] = "connecting")
    ~> (status # StConnecting \/ transport[1] # "connecting")

\* the state of the session as the component shows it
SessionState ==
  CASE status = StReady -> "Idle"
    [] status = StConnecting -> "Connecting"
    [] status = StConnected -> "Active"
    [] status = StEnded -> "Ended"
    [] status \in {StError, StFailed} -> "Failed"

\* C18: the session state changes only along Idle -> Connecting -> Active ->
\* Ended or to Failed: Connecting is entered only by start(), Active only
\* from Connecting on the Opened event, and stop() from Active leads to
\* Ended.
C18_StateChain ==
  [][/\ SessionState' # SessionState =>
          \/ SessionState' = "Failed"
          \/ SessionState' = "Connecting" /\ \E i \in Sessions : ConnectStart(i)
          \/ /\ SessionState = "Connecting" /\ SessionState' = "Active"
             /\ \E i \in Sessions : onopen(i)
          \/ SessionState = "Active" /\ SessionState' = "Ended"
     /\ (SessionState = "Active" /\ DisconnectStep)
          => SessionState' = "Ended"]_vars

\* C19: teardown stops capture and releases the microphone, cancels the
\* pending playback, closes the connection and releases the output device:
\* after disconnect() all four have been done for the session whose stream
\* and output context the component holds.
C19_TeardownSteps ==
  [][\A i \in Sessions :
       (DisconnectStep /\ streamRef = i /\ audioContextRef = i) =>
         /\ ~capture'[i] /\ stream'[i] = "ended"
         /\ handlers'[i] = <<>>
         /\ transport'[i] \notin {"connecting", "open"}
         /\ outputCtx'[i] = "closed"]_vars

\* C20: each captured frame is encoded into one chunk tagged
\* audio/pcm;rate=16000 and handed to the transport's send once, in the order
\* of capture: the chunks sent, followed by those waiting for the session
\* promise, are the chunks of frames 1, 2, ... in that order, none twice, and
\* none waits once the promise is fulfilled.
C20_FramesSentInOrder ==
  \A i \in Sessions :
    LET chunks == sent[i] \o queued[i]
    IN  /\ Len(chunks) = captured[i]
        /\ \A k \in 1..Len(chunks) :
             chunks[k].frame = k /\ chunks[k].mimeType = "audio/pcm;rate=16000"
        /\ promise[i] = "resolved" => queued[i] = <<>>

\* C20 witness: two frames were captured while the session promise was
\* pending, and both were sent when it was fulfilled
C20_Witness ==
  /\ Len(sent[1]) >= 2
  /\ sent[1][1].deferred /\ sent[1][2].deferred

\* the session of closure i has ended or failed: its microphone was refused,
\* its connection was closed or reported an error, or its connect() call was
\* rejected
Terminal(i) ==
  \/ pc[i] = "denied"
  \/ transport[i] \in {"closed", "failed"}
  \/ promise[i] = "rejected"

\* C21: no fault is retried by the engine: in the step in which a session
\* fails or ends, and in every step after it, no microphone is acquired and
\* no connection is requested for that session; a new attempt is a new
\* connect() call.
C21_NoAutomaticRetry ==
  [][\A i \in Sessions :
       ( \/ Terminal(i)
         \/ MicDenied(i) \/ onerror(i) \/ onclose(i) \/ PromiseReject(i) )
       => /\ transport'[i] # "connecting"
          /\ ~(stream[i] # "live" /\ stream'[i] = "live")
          /\ pc'[i] # "awaitMic"]_vars

\* C21 witness: the first session has failed and its state is left as it
\* was, while the user has started a second one, which is connecting
C21_Witness ==
  /\ transport[1] = "failed"
  /\ pc[2] = "done" /\ transport[2] = "connecting"

\* C22: every frame is started at max(nextStartTime, clock) taken at the
\* moment of scheduling, hence never earlier than the clock at that moment,
\* and the cursor is then the start time plus the duration of the frame
\* (unless the same message resets it).
C22_StartAtClampedToClock ==
  [][\A i \in Sessions :
       LET k == Len(timeline[i]) + 1
       IN  (Len(timeline'[i]) >= k /\ timeline'[i][k].kind = "frame") =>
             LET f == timeline'[i][k]
             IN  /\ f.start = Max(nextStartTime[i], currentTime[i])
                 /\ f.start >= f.at
                 /\ Len(timeline'[i]) = k
                      => nextStartTime'[i] = f.start + f.dur]_vars

\* C23: no chunk is held on the unresolved session promise and sent once the
\* promise is fulfilled: every chunk handed to the transport was made while
\* the session was already available.
C23_NoChunkHeldPending ==
  \A i \in Sessions :
    \A k \in 1..Len(sent[i]) : ~sent[i][k].deferred

\* C24: the capture callback leaves the playback cursor as it is, and the
\* cursor changes only in the handling of a server message (an audio chunk or
\* an Interrupted event).
C24_CaptureLeavesCursor ==
  [][\A i \in Sessions :
       /\ onaudioprocess(i) => nextStartTime' = nextStartTime
       /\ nextStartTime'[i] # nextStartTime[i]
            => \/ \E m \in Messages : onmessage(i, m)
               \/ onmessageResume(i)]_vars

\* C24 witness: a frame was captured and sent while a message handler was
\* suspended and the cursor stood behind a scheduled frame
C24_Witness ==
  /\ sent[1] # <<>>
  /\ handlers[1] # <<>>
  /\ nextStartTime[1] > 0 /\ timeline[1] # <<>>

\* C26: once the output context of a session is closed, no playback source
\* is created or started on it: no frame is added to its timeline.
C26_NoFrameAfterTeardown ==
  [][\A i \in Sessions :
       outputCtx[i] = "closed" =>
         \A k \in (Len(timeline[i]) + 1)..Len(timeline'[i]) :
           timeline'[i][k].kind # "frame"]_vars

\* C25: the cursor belongs to its session: the handling of a message of one
\* session leaves the cursor and the timeline of every other session as they
\* are, and the first chunk of a session is started no later than the clock
\* of that session at the moment of scheduling, whatever an earlier session
\* has left scheduled.
C25_CursorPerSession ==
  [][\A i \in Sessions :
       /\ ((\E m \in Messages : onmessage(i, m)) \/ onmessageResume(i))
            => \A j \in Sessions \ {i} :
                 /\ nextStartTime'[j] = nextStartTime[j]
                 /\ timeline'[j] = timeline[j]
       /\ \A k \in 1..Len(timeline'[i]) :
            (timeline'[i][k].kind = "frame" /\ timeline'[i][k].n = 1)
              => timeline'[i][k].start <= timeline'[i][k].at]_vars

\* C25 witness: the first session has left a cursor ahead of the clock of the
\* second, and the first chunk of the second session was started before it
C25_Witness ==
  /\ timeline[1] # <<>> /\ nextStartTime[1] > currentTime[2]
  /\ \E k \in 1..Len(timeline[2]) :
       /\ timeline[2][k].kind = "frame" /\ timeline[2][k].n = 1
       /\ timeline[2][k].start < nextStartTime[1]

\* C27: once disconnect() has run on a session and a later connect() call
\* has been made, a late onopen, onclose or onerror of the earlier session
\* leaves isActive and status as they are.
C27_LateCallbacksIgnored ==
  [][\A i \in Sessions :
       ( /\ stopped[i] # "never"
         /\ \E j \in Sessions : j > i /\ pc[j] # "idle" /\ stopped[j] = "never"
         /\ (onopen(i) \/ onclose(i) \/ onerror(i)) )
       => isActive' = isActive /\ status' = status]_vars

\* C28: the first disconnect() after any number of connect() calls releases
\* everything they acquired: after it no microphone stream is live and no
\* output context is running.
C28_DisconnectReleasesAll ==
  [][(DisconnectStep /\ \A i \in Sessions : stopped[i] = "never") =>
       \A i \in Sessions :
         stream'[i] # "live" /\ outputCtx'[i] # "running"]_vars

\* C29: isActive is true exactly when the status is "Connected! Speak now.",
\* and while isActive is false no capture callback is installed on a running
\* input context with a session to send to.
C29_FlagMatchesPipeline ==
  /\ isActive <=> status = StConnected
  /\ ~isActive =>
       \A i \in Sessions :
         ~(capture[i] /\ inputCtx[i] = "running" /\ promise[i] = "resolved")

\* C30: a message that carries an audio payload and interrupted = true first
\* schedules its frame and then resets the cursor: the frame is appended to
\* the timeline and stays there, the reset follows it, and the cursor after
\* the message is 0.  The frame starts at max(nextStartTime, now), hence not
\* before the clock read when the message arrived; when no earlier handler
\* was suspended at that moment, that clock is at least the clock of every
\* frame and reset of the chunks and messages that came before.
C30_ScheduleThenReset ==
  [][\A i \in Sessions :
       ( /\ onmessageResume(i)
         /\ Head(handlers[i]).msg.interrupted
         /\ ~DecodeThrows(Head(handlers[i]).msg.audio) ) =>
         LET h == Head(handlers[i])
             k == Len(timeline[i])
         IN  /\ Len(timeline'[i]) = k + 2
             /\ SubSeq(timeline'[i], 1, k) = timeline[i]
             /\ timeline'[i][k + 1].kind = "frame"
             /\ timeline'[i][k + 2].kind = "reset"
             /\ nextStartTime'[i] = 0
             /\ h.pend = 0 =>
                  \A j \in 1..k :
                    timeline[i][j].n < h.n =>
                      timeline'[i][k + 1].start >= timeline[i][j].at]_vars
====
